---- MODULE Spec2Model ----
(***************************************************************************)
(* GlyphOS (class UnifiedOS): the generation session controller            *)
(* (processCommandInput / processInput, generateResponse), the three       *)
(* streaming adapters (streamOllama, streamOpenAIStyle, streamGemini) and  *)
(* the writes of renderRichContent to the response block.                  *)
(*                                                                         *)
(* The repository holds two editions of the class: OS/script-unified.js    *)
(* ("unified") and an earlier one ("legacy").  The variable `variant`      *)
(* says which edition is running; every operation is translated from both. *)
(*                                                                         *)
(* Text is a sequence of lexical tokens.  A response body is a sequence    *)
(* over the tokens "\n", " ", "{", "}", "a", "b", "data: ", "[DONE]":      *)
(*   "{" c "}"   a JSON object whose content field holds the text c        *)
(*   "{" "}"     a JSON object without a content field ({"done":true})     *)
(*   c           a JSON value that is not an object (the string "c")       *)
(* A chunk boundary can fall between any two tokens.                       *)
(***************************************************************************)
EXTENDS Integers, Sequences, FiniteSets, TLC

VARIABLES
    variant,         \* "unified" | "legacy": the edition of the class
    provider,        \* this.provider
    keys,            \* the providers p with a non-empty this.keys[p]
    isConnected,     \* this.isConnected
    isGenerating,    \* this.isGenerating
    commandHistory,  \* this.commandHistory
    canvas,          \* this.dom.canvas: the blocks attached to it, in order
    history,         \* this.history: the chat threads
    sessions,        \* the activations of generateResponse, oldest first
    started,         \* the number of generateResponse bodies begun so far
    signal,          \* the last toast shown ("none" when there is none yet)
    checks,          \* the providers whose checkConnection awaits its reply
    target,          \* an element renderRichContent is called on, by itself:
                     \* [env, throws, text, html, last] (see RenderSpec)
    dom,             \* this.dom, as far as the status bar and the command
                     \* bar go: [spinner, runDisabled, hasText, modelList]
    panel            \* the API keys: [keyval, stored, validations] (this.keys,
                     \* the glyphos_<provider>_key entries of localStorage and
                     \* the pending calls of validateProviderConnection)

vars == <<variant, provider, keys, isConnected, isGenerating, commandHistory,
          canvas, history, sessions, started, signal, checks, target,
          dom, panel>>

-----------------------------------------------------------------------------
(* Bounds of the model *)

MaxSessions == 2     \* generateResponse bodies begun in one run
MaxLines == 2        \* lines of a response body
MaxBlocks == 4       \* blocks on the canvas
MaxSegments == 5     \* segments of a markdown text with math
MaxCodeSegments == 3 \* segments of a markdown text with code blocks
MaxValidations == 2  \* pending calls of validateProviderConnection
MaxThreads == 2      \* threads made with the New Thread button

(* Program constants *)

MaxCommandHistory == 5

-----------------------------------------------------------------------------
(* Strings *)

NL == "\n"
SP == " "
DATA == "data: "
DONE == "[DONE]"
Content == {"a", "b"}

Last(s) == s[Len(s)]
Front(s) == SubSeq(s, 1, Len(s) - 1)

IsSpace(c) == c \in {SP, NL}

\* String.prototype.trim
RECURSIVE Trim(_)
Trim(s) ==
    IF s = <<>> THEN s
    ELSE IF IsSpace(Head(s)) THEN Trim(Tail(s))
    ELSE IF IsSpace(Last(s)) THEN Trim(Front(s))
    ELSE s

\* s.split('\n'): the pieces between the newlines; never empty
RECURSIVE Split(_)
Split(s) ==
    IF \E i \in 1..Len(s) : s[i] = NL
    THEN LET i == CHOOSE k \in 1..Len(s) :
                      s[k] = NL /\ \A j \in 1..(k - 1) : s[j] # NL
         IN <<SubSeq(s, 1, i - 1)>> \o Split(SubSeq(s, i + 1, Len(s)))
    ELSE <<s>>

\* s.startsWith('data: ')
StartsWithData(s) == s # <<>> /\ Head(s) = DATA

\* s.replace('data: ', ''): the first occurrence only
RECURSIVE ReplaceData(_)
ReplaceData(s) ==
    IF s = <<>> THEN s
    ELSE IF Head(s) = DATA THEN Tail(s)
    ELSE <<Head(s)>> \o ReplaceData(Tail(s))

\* White space between the tokens of a JSON text is insignificant.
RECURSIVE StripSpace(_)
StripSpace(s) ==
    IF s = <<>> THEN s
    ELSE IF IsSpace(Head(s)) THEN StripSpace(Tail(s))
    ELSE <<Head(s)>> \o StripSpace(Tail(s))

\* JSON.parse followed by the read of the provider's content field
\* (json.response, json.choices?.[0]?.delta?.content,
\* json.candidates?.[0]?.content?.parts?.[0]?.text):
\*   kind "object": parsed to an object, text is the field ("" when absent)
\*   kind "value":  parsed to a value that is no object, the field is undefined
\*   kind "error":  JSON.parse threw a SyntaxError
JSONParse(s) ==
    LET t == StripSpace(s) IN
    IF Len(t) = 3 /\ t[1] = "{" /\ t[2] \in Content /\ t[3] = "}"
        THEN [kind |-> "object", text |-> <<t[2]>>]
    ELSE IF t = <<"{", "}">> THEN [kind |-> "object", text |-> <<>>]
    ELSE IF Len(t) = 1 /\ t[1] \in Content THEN [kind |-> "value", text |-> <<>>]
    ELSE [kind |-> "error", text |-> <<>>]

\* try { json = JSON.parse(s); content = <field> } catch (e) {}: the content
\* the line contributes, "" when the parse threw or the field is missing.
ParsedContent(s) ==
    LET json == JSONParse(s) IN
    IF json.kind = "object" THEN json.text ELSE <<>>

-----------------------------------------------------------------------------
(* The streaming adapters.  The state of a read loop is
   [buffer, fullText, updates, thrown]: the adapter's two locals, the texts it
   has passed to onUpdate so far in this step, in order, and whether an
   exception escaped the loop body. *)

Providers == {"ollama", "groq", "openai", "openrouter", "gemini"}
CloudProviders == Providers \ {"ollama"}
OpenAIStyle == {"groq", "openai", "openrouter"}

\* A variant of the delivery that passes the delta, not the accumulated text.
DeliverDelta(acc, content) ==
    IF content = <<>> THEN acc
    ELSE [acc EXCEPT !.fullText = acc.fullText \o content,
                     !.updates = Append(acc.updates, content)]

\* if (content) { fullText += content; onUpdate(fullText); }
Deliver(acc, content) ==
    IF content = <<>> THEN acc
    ELSE [acc EXCEPT !.fullText = acc.fullText \o content,
                     !.updates = Append(acc.updates, acc.fullText \o content)]

\* A variant without the catch: the SyntaxError of JSON.parse escapes.
TryDeliverNoCatch(acc, s) ==
    IF JSONParse(s).kind = "error" THEN [acc EXCEPT !.thrown = TRUE]
    ELSE Deliver(acc, ParsedContent(s))

\* try { ... JSON.parse(s) ... } catch (e) { console.warn(...) }: a line that
\* does not parse is logged and skipped.
TryDeliver(acc, s) == Deliver(acc, ParsedContent(s))

\* One line of streamOllama's loop (the unified streamGemini has the same).
OllamaLine(v, acc, line) ==
    IF v = "unified" /\ Trim(line) = <<>> THEN acc      \* if (!line.trim()) continue;
    ELSE IF v = "legacy" /\ line = <<>> THEN acc        \* if (!line) continue;
    ELSE TryDeliver(acc, line)

RECURSIVE OllamaLines(_, _, _)
OllamaLines(v, acc, lines) ==
    IF lines = <<>> \/ acc.thrown THEN acc
    ELSE OllamaLines(v, OllamaLine(v, acc, Head(lines)), Tail(lines))

\* for (const line of lines) of streamOpenAIStyle's read loop; `break` at [DONE]
RECURSIVE SseLines(_, _)
SseLines(acc, lines) ==
    IF lines = <<>> \/ acc.thrown THEN acc
    ELSE LET line == Head(lines) IN
         IF StartsWithData(Trim(line))
         THEN LET dataStr == Trim(ReplaceData(line)) IN
              IF dataStr = <<DONE>> THEN acc
              ELSE SseLines(TryDeliver(acc, dataStr), Tail(lines))
         ELSE SseLines(acc, Tail(lines))

\* the loop over the remaining buffer when the reader reports done (unified)
RECURSIVE SseFinalLines(_, _)
SseFinalLines(acc, lines) ==
    IF lines = <<>> \/ acc.thrown THEN acc
    ELSE LET line == Head(lines) IN
         IF StartsWithData(Trim(line))
         THEN LET dataStr == Trim(ReplaceData(line)) IN
              IF dataStr # <<DONE>>
              THEN SseFinalLines(TryDeliver(acc, dataStr), Tail(lines))
              ELSE SseFinalLines(acc, Tail(lines))
         ELSE SseFinalLines(acc, Tail(lines))

\* buffer += decoder.decode(value); lines = buffer.split('\n'); buffer = lines.pop()
Buffered(acc, chunk) ==
    LET lines == Split(acc.buffer \o chunk) IN
    [acc |-> [acc EXCEPT !.buffer = Last(lines)], lines |-> Front(lines)]

\* The body of the read loop for one chunk.
OllamaChunk(v, acc, chunk) ==
    IF v = "unified"
    THEN LET b == Buffered(acc, chunk) IN OllamaLines(v, b.acc, b.lines)
    ELSE OllamaLines(v, acc, Split(chunk))     \* lines = chunk.split('\n')

OpenAIChunk(v, acc, chunk) ==
    IF v = "unified"
    THEN LET b == Buffered(acc, chunk) IN SseLines(b.acc, b.lines)
    ELSE SseLines(acc, Split(chunk))

GeminiChunk(v, acc, chunk) ==
    IF v = "unified"
    THEN LET b == Buffered(acc, chunk) IN OllamaLines(v, b.acc, b.lines)
    \* legacy: the chunk is appended to the buffer; `parts` is never used
    ELSE [acc EXCEPT !.buffer = acc.buffer \o chunk]

\* What follows the read loop once the reader reports done, up to the check
\* of fullText (which StreamEnd makes).
OllamaEnd(v, acc) ==
    IF v = "unified" /\ Trim(acc.buffer) # <<>>
    THEN TryDeliver(acc, acc.buffer)
    ELSE acc

OpenAIEnd(v, acc) ==
    IF v = "unified" /\ Trim(acc.buffer) # <<>>
    THEN SseFinalLines(acc, Split(acc.buffer))
    ELSE acc

GeminiEnd(v, acc) == acc

ChunkStep(v, p, acc, chunk) ==
    IF p = "ollama" THEN OllamaChunk(v, acc, chunk)
    ELSE IF p = "gemini" THEN GeminiChunk(v, acc, chunk)
    ELSE OpenAIChunk(v, acc, chunk)

EndStep(v, p, acc) ==
    IF p = "ollama" THEN OllamaEnd(v, acc)
    ELSE IF p = "gemini" THEN GeminiEnd(v, acc)
    ELSE OpenAIEnd(v, acc)

\* if (!fullText) throw new Error('Empty response from ...'): unified only
ThrowsEmpty(v, fullText) == v = "unified" /\ fullText = <<>>

-----------------------------------------------------------------------------
(* The response block and the chat threads *)

\* renderRichContent(element, markdownText, isFinal): element.innerHTML (or
\* textContent) is assigned, so whatever the element held is replaced by the
\* rendering of markdownText.
RenderRichContent(el, markdownText, isFinal) ==
    <<[kind |-> "rich", src |-> markdownText, final |-> isFinal]>>

\* contentEl.innerHTML += `\n\n**Error:** ${err.message}`
AppendError(el, err) ==
    Append(el, [kind |-> "error", src |-> err, final |-> FALSE])

ShowsError(el) == \E k \in 1..Len(el) : el[k].kind = "error"

UserBlock(text) == [type |-> "user", content |-> text, id |-> 0]
SystemBlock(what) == [type |-> "system", content |-> <<what>>, id |-> 0]
AssistantBlock(id) == [type |-> "assistant", content |-> <<>>, id |-> id]

HasActive(hist) == \E k \in 1..Len(hist) : hist[k].status = "active"
\* this.history.find(thread => thread.status === 'active')
ActiveIndex(hist) ==
    CHOOSE k \in 1..Len(hist) :
        hist[k].status = "active" /\ \A j \in 1..(k - 1) : hist[j].status # "active"

\* `thread-${Date.now()}` for a thread created now: the clock reads what it
\* read when the newest thread (the first of the list) was created, or more.
\* Only the equality of ids matters, so the first id is 0 and the clock
\* advances by one.
Now(hist) == IF hist = <<>> THEN {0} ELSE {hist[1].id, hist[1].id + 1}

\* appendBlock(msg.type, msg.content) for each message of a thread
ThreadBlocks(messages) ==
    [k \in 1..Len(messages) |->
        [type |-> messages[k].type, content |-> messages[k].content, id |-> 0]]

\* loadThread(threadId): the statuses it leaves
LoadThread(hist, id) ==
    [k \in 1..Len(hist) |->
        [hist[k] EXCEPT !.status = IF hist[k].id = id THEN "active" ELSE "saved"]]

\* createNewThread(), the clock reading id: the active thread becomes
\* 'saved', a new active thread is put first, and loadThread(newThread.id)
\* sets the status of every thread.
CreateNewThread(hist, p, id) ==
    LET marked == IF HasActive(hist)
                  THEN [hist EXCEPT ![ActiveIndex(hist)].status = "saved"]
                  ELSE hist
    IN LoadThread(<<[id |-> id, status |-> "active", provider |-> p,
                     messages |-> <<>>]>> \o marked, id)

\* saveThreadToHistory(userPrompt, assistantResponse, provider): the new
\* history; NeedsNewThread says whether createNewThread ran, which (through
\* loadThread) empties the canvas and appends the new thread's messages (none).
NeedsNewThread(hist) ==
    ~HasActive(hist) \/ hist[ActiveIndex(hist)].messages = <<>>

SaveThreadToHistory(hist, p0, userPrompt, assistantResponse, p, id) ==
    LET h == IF NeedsNewThread(hist) THEN CreateNewThread(hist, p0, id) ELSE hist
        a == IF NeedsNewThread(hist) THEN 1 ELSE ActiveIndex(hist)
    IN [h EXCEPT ![a].messages = @ \o <<[type |-> "user", content |-> userPrompt],
                                        [type |-> "assistant",
                                         content |-> assistantResponse]>>,
                 ![a].provider = p]

-----------------------------------------------------------------------------
(* generateResponse.  An activation is the record
     id                its ordinal (responseId)
     prompt, provider  the prompt and activeProvider captured at the start
     pc                "fetch": awaiting fetch; "read": in the read loop;
                       "fallback": awaiting the non-streaming fetch of the
                       legacy streamGemini; "done": returned
     body, pos         the response body and how much of it has been read
     buffer, fullText  the adapter's locals
     fullResponseText  generateResponse's local
     el                the content of contentEl
     renders           the calls of renderRichContent on contentEl, in order:
                       [final, text, gen] with gen the value of isGenerating
     updates           the texts passed to onUpdate, in order
     err               "none", or the condition that aborted the session
     saved             saveThreadToHistory was called for it *)

Running(s) == s.pc # "done"
RunningSet == {i \in 1..Len(sessions) : Running(sessions[i])}

NewSession(id, prompt, p) ==
    [id |-> id, prompt |-> prompt, provider |-> p, pc |-> "fetch",
     body |-> <<>>, pos |-> 0, buffer |-> <<>>, fullText |-> <<>>,
     fullResponseText |-> <<>>,
     \* appendBlock('assistant', '', responseId) renders the empty block
     el |-> RenderRichContent(<<>>, <<>>, TRUE),
     renders |-> <<[final |-> TRUE, text |-> <<>>, gen |-> TRUE]>>,
     updates |-> <<>>, err |-> "none", saved |-> FALSE]

\* onUpdate(text), for each text of `updates` in order:
\*   fullResponseText = text; this.renderRichContent(contentEl, fullResponseText)
RECURSIVE OnUpdates(_, _, _)
OnUpdates(s, updates, gen) ==
    IF updates = <<>> THEN s
    ELSE OnUpdates([s EXCEPT !.fullResponseText = Head(updates),
                             !.el = RenderRichContent(s.el, Head(updates), FALSE),
                             !.renders = Append(s.renders,
                                 [final |-> FALSE, text |-> Head(updates), gen |-> gen]),
                             !.updates = Append(s.updates, Head(updates))],
                   Tail(updates), gen)

\* The catch clause of generateResponse.
Caught(s, err) == [s EXCEPT !.el = AppendError(s.el, err), !.err = err]

\* A variant of the finally clause that renders before it clears isGenerating.
FinallyBeforeClear(s) ==
    [s EXCEPT !.pc = "done",
              !.el = RenderRichContent(s.el, s.fullResponseText, TRUE),
              !.renders = Append(s.renders,
                  [final |-> TRUE, text |-> s.fullResponseText, gen |-> TRUE])]

\* The finally clause of generateResponse: isGenerating is cleared, then the
\* final render pass.
Finally(s) ==
    [s EXCEPT !.pc = "done",
              !.el = RenderRichContent(s.el, s.fullResponseText, TRUE),
              !.renders = Append(s.renders,
                  [final |-> TRUE, text |-> s.fullResponseText, gen |-> FALSE])]

\* generateResponse from the return (err = "none") or the throw of the
\* adapter to its end, for activation s.
Settle(s, err) ==
    IF err = "none"
    THEN Finally([s EXCEPT !.saved = (variant = "unified")])
    ELSE Finally(Caught(s, err))

\* updateStatusBar(isGenerating, ...): the spinner and the run button.  The
\* legacy edition has no such function.
UpdateStatusBar(d, gen) ==
    IF variant = "unified" THEN [d EXCEPT !.spinner = gen, !.runDisabled = gen]
    ELSE d

\* updateCommandInputButtons(): runCmdBtn.disabled = !hasText || this.isGenerating
UpdateCommandInputButtons(d, gen) ==
    IF variant = "unified" THEN [d EXCEPT !.runDisabled = ~d.hasText \/ gen]
    ELSE d

\* A variant of generateResponse that clears isGenerating after the try
\* statement instead of in its finally clause.
SettleAtNoFinally(ss, i, s, err, cv, sig, d) ==
    /\ sessions' = [ss EXCEPT ![i] = Settle(s, err)]
    /\ dom' = UpdateCommandInputButtons(UpdateStatusBar(d, FALSE), FALSE)
    /\ isGenerating' = IF err = "none" THEN FALSE ELSE isGenerating
    /\ IF err = "none" /\ variant = "unified"
       THEN /\ \E id \in Now(history) :
                   history' = SaveThreadToHistory(history, provider, s.prompt,
                                  s.fullResponseText, s.provider, id)
            /\ canvas' = IF NeedsNewThread(history) THEN <<>> ELSE cv
            /\ signal' = IF NeedsNewThread(history) THEN "newThread" ELSE sig
       ELSE /\ history' = history
            /\ canvas' = cv
            /\ signal' = IF err # "none" /\ variant = "unified"
                         THEN "generationError" ELSE sig

\* The same, as the change of the whole state; ss is `sessions` with
\* activation i still to be settled, cv the canvas, sig the last toast and d
\* the status bar and command bar at that point.
SettleAt(ss, i, s, err, cv, sig, d) ==
    /\ sessions' = [ss EXCEPT ![i] = Settle(s, err)]
    /\ dom' = UpdateCommandInputButtons(UpdateStatusBar(d, FALSE), FALSE)
    /\ isGenerating' = FALSE
    /\ IF err = "none" /\ variant = "unified"
       THEN /\ \E id \in Now(history) :
                   history' = SaveThreadToHistory(history, provider, s.prompt,
                                  s.fullResponseText, s.provider, id)
            /\ canvas' = IF NeedsNewThread(history) THEN <<>> ELSE cv
            /\ signal' = IF NeedsNewThread(history) THEN "newThread" ELSE sig
       ELSE /\ history' = history
            /\ canvas' = cv
            /\ signal' = IF err # "none" /\ variant = "unified"
                         THEN "generationError" ELSE sig

\* A variant of generateResponse without its guard.
BusyNever == FALSE

\* if (this.isGenerating) return;   (first statement of generateResponse)
Busy == isGenerating

\* if (!key) throw new Error('API Key missing.');  and the same for Gemini
KeyMissing(p) == p \in CloudProviders /\ p \notin keys

\* generateResponse(prompt, overrideProvider) up to its first await, called
\* with the canvas cv, the last toast sig and the bars d.  A missing key makes the adapter
\* throw before it awaits anything, so the activation is settled at once.
Begin(cv, prompt, override, sig, d) ==
    IF Busy
    THEN /\ canvas' = cv
         /\ signal' = sig
         /\ dom' = d
         /\ UNCHANGED <<sessions, isGenerating, history, started>>
    ELSE LET p == IF override # "none" THEN override ELSE provider
             s0 == NewSession(started + 1, prompt, p)
             ss == Append(SelectSeq(sessions, Running), s0)
             cv1 == Append(cv, AssistantBlock(started + 1))
         IN /\ started' = started + 1
            /\ IF KeyMissing(p)
               THEN SettleAt(ss, Len(ss), s0, "KeyMissing", cv1, sig, d)
               ELSE /\ sessions' = ss
                    /\ isGenerating' = TRUE
                    /\ dom' = UpdateStatusBar(d, TRUE)
                    /\ canvas' = cv1
                    /\ history' = history
                    /\ signal' = sig

-----------------------------------------------------------------------------
(* Submissions *)

PromptHi == <<"hi">>
Inputs == { <<>>, PromptHi, <<"/", "clear">>, <<"@", "groq", SP, "hi">> }

IsCommand(text) == text # <<>> /\ Head(text) = "/"

\* text.match(/^@(\w+)\s+(.+)$/) with a provider name of the list
HasOverride(text) ==
    Len(text) >= 4 /\ text[1] = "@" /\ text[3] = SP /\ text[2] \in Providers
OverrideOf(text) == IF HasOverride(text) THEN text[2] ELSE "none"
MessageOf(text) == IF HasOverride(text) THEN SubSeq(text, 4, Len(text)) ELSE text

\* if (!this.commandHistory.includes(text)) { unshift(text); if (length > 5) pop(); }
Remember(ch, text) ==
    IF \E k \in 1..Len(ch) : ch[k] = text THEN ch
    ELSE IF Len(ch) + 1 > MaxCommandHistory THEN <<text>> \o Front(ch)
    ELSE <<text>> \o ch

\* if (this.isGenerating) { toast('Please wait ...'); return; }
InputBusy == isGenerating

\* The connection check of step 3: the toast (unified) or system block
\* (legacy) that ends the submission, "none" when it lets the prompt through.
Refusal(override) ==
    IF ~isConnected /\ override = "none"
    THEN IF provider # "ollama" /\ provider \notin keys THEN "missingKey"
         ELSE IF provider = "ollama" THEN "offline"
         ELSE "none"
    ELSE "none"

\* A submission fits the bounds of the model.
Fits(text) ==
    /\ \/ Len(canvas) + 2 <= MaxBlocks
       \/ text \in { <<>>, <<"/", "clear">> }
       \/ variant = "unified" /\ isGenerating
    /\ isGenerating \/ started < MaxSessions \/ text = <<>> \/ IsCommand(text)

\* handleCommand(cmd, args) of the unified edition
HandleCommandUnified(cmd) ==
    /\ IF cmd = "help"
       THEN canvas' = Append(canvas, SystemBlock("help"))
            /\ UNCHANGED <<history, signal>>
       ELSE IF cmd = "clear"
       THEN canvas' = <<>> /\ history' = <<>> /\ signal' = "cleared"
       ELSE IF cmd = "reset"
       THEN canvas' = <<>> /\ history' = <<>> /\ signal' = "reset"
       ELSE signal' = "unknownCommand" /\ UNCHANGED <<canvas, history>>
    /\ UNCHANGED <<sessions, isGenerating, started>>

\* handleCommand(cmd, args) of the legacy edition
HandleCommandLegacy(cmd) ==
    /\ IF cmd = "help" THEN canvas' = Append(canvas, SystemBlock("help"))
       ELSE IF cmd = "clear" THEN canvas' = <<>>
       ELSE canvas' = Append(canvas, SystemBlock("unknownCommand"))
    /\ UNCHANGED <<history, signal, sessions, isGenerating, started>>

\* processCommandInput() with `text` in the command input (Enter, the run
\* buttons, a click in the history dropdown).
ProcessCommandInput(text) ==
    /\ variant = "unified"
    /\ Fits(text)
    /\ UNCHANGED <<variant, provider, keys, isConnected, checks, target, panel>>
    /\ LET \* the text is typed into the command input (`input` listener)
           typed == UpdateCommandInputButtons([dom EXCEPT !.hasText = text # <<>>],
                                              isGenerating)
           \* this.dom.cmdInput.value = ''; this.updateCommandInputButtons();
           cleared == UpdateCommandInputButtons([dom EXCEPT !.hasText = FALSE],
                                                isGenerating)
       IN
       IF text = <<>>
       THEN /\ signal' = "emptyInput"
            /\ dom' = typed
            /\ UNCHANGED <<commandHistory, canvas, history, sessions,
                           isGenerating, started>>
       ELSE IF InputBusy
       THEN /\ signal' = "busy"
            /\ dom' = typed
            /\ UNCHANGED <<commandHistory, canvas, history, sessions,
                           isGenerating, started>>
       ELSE /\ commandHistory' = Remember(commandHistory, text)
            /\ IF IsCommand(text)
               THEN HandleCommandUnified(text[2]) /\ dom' = cleared
               \* `text` is a const: the assignment text = match[2] throws a
               \* TypeError, which ends the handler
               ELSE IF HasOverride(text)
               THEN /\ dom' = cleared
                    /\ UNCHANGED <<canvas, history, sessions, isGenerating,
                                   started, signal>>
               ELSE IF Refusal("none") # "none"
               THEN /\ canvas' = Append(canvas, UserBlock(text))
                    /\ signal' = Refusal("none")
                    /\ dom' = cleared
                    /\ UNCHANGED <<history, sessions, isGenerating, started>>
               ELSE Begin(Append(canvas, UserBlock(text)), text, "none", signal,
                          cleared)

\* handleInputKey(e) for Enter, then processInput(text), of the legacy edition
ProcessInput(text) ==
    /\ variant = "legacy"
    /\ Fits(text)
    /\ text # <<>>                          \* if (!text) return;
    /\ UNCHANGED <<variant, provider, keys, isConnected, checks, commandHistory,
                   target, panel>>
    /\ IF IsCommand(text) THEN HandleCommandLegacy(text[2]) /\ dom' = dom
       ELSE LET cv == Append(canvas, UserBlock(MessageOf(text))) IN
            IF Refusal(OverrideOf(text)) # "none"
            THEN /\ canvas' = Append(cv, SystemBlock(Refusal(OverrideOf(text))))
                 /\ UNCHANGED <<history, sessions, isGenerating, started, signal,
                                dom>>
            ELSE Begin(cv, MessageOf(text), OverrideOf(text), signal, dom)

-----------------------------------------------------------------------------
(* The transport and the read loops *)

Replace(i, s) == [sessions EXCEPT ![i] = s]

LoopState(s) ==
    [buffer |-> s.buffer, fullText |-> s.fullText, updates |-> <<>>,
     thrown |-> FALSE]

\* The activation after a step of its adapter that left the loop state acc.
After(s, acc) ==
    OnUpdates([s EXCEPT !.buffer = acc.buffer, !.fullText = acc.fullText],
              acc.updates, TRUE)

Others ==
    <<variant, provider, keys, isConnected, checks, commandHistory, started, target,
      panel>>

\* `await fetch(...)` resolves with a 2xx response carrying `body`
\* (outcome "ok"), with another status ("status"), or rejects ("network").
FetchResolves(i, outcome, body) ==
    /\ i \in 1..Len(sessions)
    /\ sessions[i].pc = "fetch"
    /\ UNCHANGED Others
    /\ IF outcome = "ok"
       THEN /\ sessions' = Replace(i, [sessions[i] EXCEPT !.pc = "read",
                                                          !.body = body])
            /\ UNCHANGED <<isGenerating, canvas, history, signal, dom>>
       ELSE SettleAt(sessions, i, sessions[i], "TransportError", canvas, signal, dom)

\* `await reader.read()` yields the next n tokens of the body, and the loop
\* body runs on them.
ReadChunk(i, n) ==
    /\ i \in 1..Len(sessions)
    /\ sessions[i].pc = "read"
    /\ n \in 1..(Len(sessions[i].body) - sessions[i].pos)
    /\ UNCHANGED Others
    /\ LET s == sessions[i]
           chunk == SubSeq(s.body, s.pos + 1, s.pos + n)
           acc == ChunkStep(variant, s.provider, LoopState(s), chunk)
           s1 == After([s EXCEPT !.pos = s.pos + n], acc)
       IN IF acc.thrown
          THEN SettleAt(sessions, i, s1, "DecodeError", canvas, signal, dom)
          ELSE /\ sessions' = Replace(i, s1)
               /\ UNCHANGED <<isGenerating, canvas, history, signal, dom>>

\* `await reader.read()` reports done: the adapter runs to its end, and
\* generateResponse to its own.  The legacy streamGemini goes on to its
\* non-streaming request instead.
ReadDone(i) ==
    /\ i \in 1..Len(sessions)
    /\ sessions[i].pc = "read"
    /\ sessions[i].pos = Len(sessions[i].body)
    /\ UNCHANGED Others
    /\ LET s == sessions[i]
           acc == EndStep(variant, s.provider, LoopState(s))
           s1 == After(s, acc)
       IN IF variant = "legacy" /\ s.provider = "gemini"
          THEN /\ sessions' = Replace(i, [s1 EXCEPT !.pc = "fallback"])
               /\ UNCHANGED <<isGenerating, canvas, history, signal, dom>>
          ELSE IF acc.thrown
          THEN SettleAt(sessions, i, s1, "DecodeError", canvas, signal, dom)
          ELSE IF ThrowsEmpty(variant, acc.fullText)
          THEN SettleAt(sessions, i, s1, "EmptyResponse", canvas, signal, dom)
          ELSE SettleAt(sessions, i, s1, "none", canvas, signal, dom)

\* `await reader.read()` rejects: the transport failed in mid-body.
ReadFails(i) ==
    /\ i \in 1..Len(sessions)
    /\ sessions[i].pc = "read"
    /\ UNCHANGED Others
    /\ SettleAt(sessions, i, sessions[i], "TransportError", canvas, signal, dom)

\* The documents the non-streaming request of the legacy streamGemini can
\* resolve to: candidates with a text, a document without candidates, or a
\* rejection of fetch / response.json().
FallbackDocs ==
    { [kind |-> "candidates", text |-> t] : t \in { <<"a">>, <<"a", "b">> } }
    \cup { [kind |-> "nocandidates", text |-> <<>>],
           [kind |-> "rejected", text |-> <<>>] }

\* const json = await simpleResponse.json();
\* if (json.candidates && json.candidates[0].content) onUpdate(...text)
FallbackResolves(i, doc) ==
    /\ i \in 1..Len(sessions)
    /\ sessions[i].pc = "fallback"
    /\ UNCHANGED Others
    /\ LET s == sessions[i] IN
       IF doc.kind = "rejected"
       THEN SettleAt(sessions, i, s, "TransportError", canvas, signal, dom)
       ELSE IF doc.kind = "candidates"
       THEN SettleAt(sessions, i, OnUpdates(s, <<doc.text>>, TRUE), "none",
                     canvas, signal, dom)
       ELSE SettleAt(sessions, i, s, "none", canvas, signal, dom)

\* onUpdate(text) for each text of acc.updates when renderRichContent throws
\* on them: fullResponseText is assigned before the call, the element keeps
\* what it held, and the exception leaves onUpdate.
AfterRenderThrows(s, acc) ==
    [s EXCEPT !.buffer = acc.buffer, !.fullText = acc.fullText,
              !.fullResponseText = Last(acc.updates),
              !.updates = @ \o acc.updates]

\* ReadChunk when rendering the deltas of the chunk throws.  Every adapter
\* calls onUpdate inside the try of its line, so its catch takes the exception
\* and the loop goes on.
ReadChunkRenderThrows(i, n) ==
    /\ i \in 1..Len(sessions)
    /\ sessions[i].pc = "read"
    /\ n \in 1..(Len(sessions[i].body) - sessions[i].pos)
    /\ UNCHANGED Others
    /\ LET s == sessions[i]
           chunk == SubSeq(s.body, s.pos + 1, s.pos + n)
           acc == ChunkStep(variant, s.provider, LoopState(s), chunk)
       IN /\ acc.updates # <<>>
          /\ ~acc.thrown
          /\ sessions' = Replace(i, AfterRenderThrows([s EXCEPT !.pos = s.pos + n], acc))
          /\ UNCHANGED <<isGenerating, canvas, history, signal, dom>>

\* FallbackResolves with candidates when rendering their text throws: the
\* onUpdate of the legacy streamGemini is outside any try, so the exception
\* reaches the catch clause of generateResponse.
FallbackRenderThrows(i, doc) ==
    /\ i \in 1..Len(sessions)
    /\ sessions[i].pc = "fallback"
    /\ doc.kind = "candidates"
    /\ UNCHANGED Others
    /\ LET s == sessions[i]
           acc == [LoopState(s) EXCEPT !.updates = <<doc.text>>]
       IN SettleAt(sessions, i, AfterRenderThrows(s, acc), "RenderError",
                   canvas, signal, dom)

\* The reply to checkConnection's request for provider p arrives.
CheckResolves(p, ok) ==
    /\ p \in checks
    /\ checks' = checks \ {p}
    /\ isConnected' = ok
    /\ signal' = IF ~ok /\ variant = "unified" THEN "connectionFailed" ELSE signal
    \* updateStatusBar(false, ...), and the model list of p or the message
    /\ dom' = [UpdateStatusBar(dom, FALSE) EXCEPT
                  !.modelList = IF ok THEN p ELSE "unavailable"]
    /\ UNCHANGED <<variant, provider, keys, isGenerating, commandHistory, canvas,
                   history, sessions, started, target, panel>>

-----------------------------------------------------------------------------
(* The control panel (unified edition) *)

\* An API key: KeyFor(p, n) is the key named n that the user holds for
\* provider p ("old" is the one an earlier run stored), NoKey the empty string.
NoKey == <<>>
KeyFor(p, n) == <<p, n>>

\* checkConnection() up to its first await, called when this.provider is p,
\* the providers of ks have a key, the bars are d and the last toast is sig.
\* Without a key to check it ends at once.
CheckConnection(p, ks, d, sig) ==
    IF p = "ollama" \/ p \in ks
    THEN /\ checks' = checks \cup {p}
         /\ isConnected' = isConnected
         /\ dom' = UpdateStatusBar(d, FALSE)
         /\ signal' = sig
    ELSE /\ checks' = checks
         /\ isConnected' = FALSE
         /\ dom' = [UpdateStatusBar(d, FALSE) EXCEPT !.modelList = "enterKey"]
         /\ signal' = "noKey"

\* The `change` listener of providerSelect.
ProviderChange(q) ==
    /\ variant = "unified"
    /\ q # provider
    /\ provider' = q
    /\ CheckConnection(q, keys, dom, signal)
    /\ UNCHANGED <<variant, keys, isGenerating, commandHistory, canvas, history,
                   sessions, started, target, panel>>

Validation(src, p, key) == [src |-> src, provider |-> p, key |-> key]

\* The `click` listener of saveKeyBtn, with the user's key n for the selected
\* provider in the key input, up to `await validateProviderConnection(...)`.
\* (The key input is hidden while ollama is selected.)
SaveKeyClick(n) ==
    /\ variant = "unified"
    /\ provider \in CloudProviders
    /\ Cardinality(panel.validations) < MaxValidations
    /\ panel' = [panel EXCEPT !.validations =
                     @ \cup {Validation("button", provider, KeyFor(provider, n))}]
    /\ UNCHANGED <<variant, provider, keys, isConnected, isGenerating,
                   commandHistory, canvas, history, sessions, started, signal,
                   checks, target, dom>>

KeyCommandText(p, n) == <<"/", "key", SP, p, SP, KeyFor(p, n)>>

\* processCommandInput() with `/key <p> <key>` in the command input, the key
\* being the user's key n for provider p: handleCommand('key', [p, key]) up to
\* the call of validateProviderConnection.
KeyCommand(p, n) ==
    /\ variant = "unified"
    /\ p \in CloudProviders              \* this.keys.hasOwnProperty(provider)
    /\ Cardinality(panel.validations) < MaxValidations
    /\ UNCHANGED <<variant, provider, keys, isConnected, isGenerating, canvas,
                   history, sessions, started, checks, target>>
    /\ IF InputBusy
       THEN /\ signal' = "busy"
            /\ dom' = UpdateCommandInputButtons([dom EXCEPT !.hasText = TRUE],
                                                isGenerating)
            /\ UNCHANGED <<commandHistory, panel>>
       ELSE /\ commandHistory' = Remember(commandHistory, KeyCommandText(p, n))
            /\ dom' = UpdateCommandInputButtons([dom EXCEPT !.hasText = FALSE],
                                                isGenerating)
            /\ signal' = signal
            /\ panel' = [panel EXCEPT !.validations =
                             @ \cup {Validation("command", p, KeyFor(p, n))}]

\* this.keys[q] = key; localStorage.setItem(`glyphos_${q}_key`, key)
StoreKey(pn, q, key) ==
    [pn EXCEPT !.keyval[q] = key, !.stored[q] = key]

\* A handler that would store the key whatever the validation answered.
ValidationResolvesUnchecked(v, ok) ==
    /\ v \in panel.validations
    /\ UNCHANGED <<variant, provider, isGenerating, commandHistory, canvas,
                   history, sessions, started, target>>
    /\ LET rest == [panel EXCEPT !.validations = @ \ {v}]
           q == IF v.src = "button" THEN provider ELSE v.provider
       IN /\ panel' = StoreKey(rest, q, v.key)
          /\ keys' = keys \cup {q}
          /\ signal' = IF ok THEN "keySaved" ELSE "validationFailed"
          /\ UNCHANGED <<isConnected, checks, dom>>

\* validateProviderConnection(v.provider, v.key) resolves (ok) or rejects,
\* and the handler that awaited it goes on: the save handler stores the key
\* under this.provider, the /key command under the provider of its argument.
ValidationResolves(v, ok) ==
    /\ v \in panel.validations
    /\ UNCHANGED <<variant, provider, isGenerating, commandHistory, canvas,
                   history, sessions, started, target>>
    /\ LET rest == [panel EXCEPT !.validations = @ \ {v}]
           q == IF v.src = "button" THEN provider ELSE v.provider
       IN IF ~ok
          THEN /\ panel' = rest
               /\ signal' = "validationFailed"
               /\ UNCHANGED <<keys, isConnected, checks, dom>>
          ELSE /\ panel' = StoreKey(rest, q, v.key)
               /\ keys' = keys \cup {q}
               /\ IF v.src = "button" \/ provider = v.provider
                  THEN CheckConnection(provider, keys \cup {q}, dom, "keySaved")
                  ELSE /\ signal' = "keySaved"
                       /\ UNCHANGED <<isConnected, checks, dom>>

-----------------------------------------------------------------------------
(* Response bodies *)

JsonLines ==
    { <<"{", "a", "}">>, <<"{", "b", "}">>, <<"{", "}">>, <<"{", "a">>, <<"a">>,
      <<>>, <<SP>> }

SseLineSet ==
    { <<DATA, "{", "a", "}">>, <<DATA, "{", "b", "}">>, <<DATA, DONE>>,
      <<DATA, "{", "}">>, <<DATA, "{">>, <<"{", "a", "}">>, <<>>,
      <<SP, DATA, "{", "a", "}">> }

LinesOf(p) == IF p \in OpenAIStyle THEN SseLineSet ELSE JsonLines

\* The lines joined by "\n"; `closed` says whether the last one is terminated.
RECURSIVE Join(_, _)
Join(lines, closed) ==
    IF lines = <<>> THEN <<>>
    ELSE IF Len(lines) = 1 THEN Head(lines) \o (IF closed THEN <<NL>> ELSE <<>>)
    ELSE Head(lines) \o <<NL>> \o Join(Tail(lines), closed)

SeqsUpTo(S, n) == UNION { [1..k -> S] : k \in 0..n }

StreamBodies(p) ==
    { Join(ls, c) : ls \in SeqsUpTo(LinesOf(p), MaxLines), c \in BOOLEAN }

ContentLine(p, c) == IF p \in OpenAIStyle THEN <<DATA, "{", c, "}">> ELSE <<"{", c, "}">>

\* The bodies of the controller's runs: no content, or two records.
ControlBodies(p) ==
    { <<>>, Join(<<ContentLine(p, "a"), ContentLine(p, "b")>>, TRUE) }

-----------------------------------------------------------------------------
(* renderRichContent in detail.  A markdown text is a sequence of the tokens
     "$"                    a dollar sign
     "x"                    a letter
     " ", "\n"              white space
     "-"                    the bullet character
     "%0", "%1", ...        the text %%%MATH0%%%, %%%MATH1%%%, ...
     "<mermaid>", "<js>", "<fence>"   the fence lines that open a mermaid
                            block and a js block, and the bare fence
   and the content of an element is a sequence of nodes
     [kind, src, body, tool]
   of kind "text" (src: the token), "display" / "inline" (rendered math, src:
   its TeX), "math-error" (the flagged span, src: its TeX), "code" (a
   <pre><code>, src: the language, body: its nodes, tool: it is wrapped with
   a toolbar) and "mermaid" (a diagram, src: its source, tool: it sits in a
   container with a toolbar). *)

DOLLAR == "$"
BULLET == "-"
LETTER == "x"
FenceMermaid == "<mermaid>"
FenceJs == "<js>"
Fence == "<fence>"
Placeholders == <<"%0", "%1", "%2", "%3", "%4", "%5">>

\* `%%%MATH${mathBlocks.length - 1}%%%`
Placeholder(n) == Placeholders[n + 1]
\* the token matches /%%%MATH(\d+)%%%/
IsPlaceholder(tok) == \E n \in 1..Len(Placeholders) : Placeholders[n] = tok
\* parseInt(index)
PlaceholderIndex(tok) ==
    (CHOOSE n \in 1..Len(Placeholders) : Placeholders[n] = tok) - 1

IsFence(tok) == tok \in {FenceMermaid, FenceJs, Fence}

\* the length of the run of white space (\s+) that starts at position i of s
RECURSIVE SpaceRun(_, _)
SpaceRun(s, i) ==
    IF i <= Len(s) /\ IsSpace(s[i]) THEN 1 + SpaceRun(s, i + 1) ELSE 0

\* text.replace(/([^\n])\s+([\-\*])\s/g, '$1\n\n$2 ') from position i on
RECURSIVE SanitizeFrom(_, _)
SanitizeFrom(s, i) ==
    IF i > Len(s) THEN <<>>
    ELSE LET n == SpaceRun(s, i + 1)
             j == i + 1 + n
         IN IF /\ s[i] # NL /\ n >= 1 /\ j + 1 <= Len(s)
               /\ s[j] = BULLET /\ IsSpace(s[j + 1])
            THEN <<s[i], NL, NL, BULLET, SP>> \o SanitizeFrom(s, j + 2)
            ELSE <<s[i]>> \o SanitizeFrom(s, i + 1)

\* sanitizeMarkdown(text)
SanitizeMarkdown(text) == SanitizeFrom(text, 1)

\* the position of the first "$$" of s at or after i, 0 when there is none
RECURSIVE FindDisplay(_, _)
FindDisplay(s, i) ==
    IF i + 1 > Len(s) THEN 0
    ELSE IF s[i] = DOLLAR /\ s[i + 1] = DOLLAR THEN i
    ELSE FindDisplay(s, i + 1)

\* processedText.replace(/\$\$([\s\S]*?)\$\$/g, ...) from position i on;
\* acc is [text, blocks]: the replaced text so far and mathBlocks
RECURSIVE ExtractDisplay(_, _, _)
ExtractDisplay(s, i, acc) ==
    IF i > Len(s) THEN acc
    ELSE LET j == IF i + 1 <= Len(s) /\ s[i] = DOLLAR /\ s[i + 1] = DOLLAR
                  THEN FindDisplay(s, i + 2) ELSE 0
         IN IF j # 0
            THEN ExtractDisplay(s, j + 2,
                     [text |-> Append(acc.text, Placeholder(Len(acc.blocks))),
                      blocks |-> Append(acc.blocks,
                          [type |-> "display", tex |-> SubSeq(s, i + 2, j - 1)])])
            ELSE ExtractDisplay(s, i + 1, [acc EXCEPT !.text = Append(@, s[i])])

\* the position of the "$" that ends [^\$\n]+? begun at position j, 0 when a
\* newline or the end of the text comes first
RECURSIVE InlineEnd(_, _)
InlineEnd(s, j) ==
    IF j > Len(s) \/ s[j] = NL \/ IsFence(s[j]) THEN 0
    ELSE IF s[j] = DOLLAR THEN j
    ELSE InlineEnd(s, j + 1)

\* processedText.replace(/\$([^\$\n]+?)\$/g, ...) from position i on
RECURSIVE ExtractInline(_, _, _)
ExtractInline(s, i, acc) ==
    IF i > Len(s) THEN acc
    ELSE LET j == IF s[i] = DOLLAR THEN InlineEnd(s, i + 1) ELSE 0
         IN IF j >= i + 2
            THEN ExtractInline(s, j + 1,
                     [text |-> Append(acc.text, Placeholder(Len(acc.blocks))),
                      blocks |-> Append(acc.blocks,
                          [type |-> "inline", tex |-> SubSeq(s, i + 1, j - 1)])])
            ELSE ExtractInline(s, i + 1, [acc EXCEPT !.text = Append(@, s[i])])

\* A variant of the extraction that runs the inline pass first.
ExtractInlineFirst(pre) ==
    LET a == ExtractInline(pre, 1, [text |-> <<>>, blocks |-> <<>>])
    IN ExtractDisplay(a.text, 1, [text |-> <<>>, blocks |-> a.blocks])

\* The two extraction passes on the text `pre`: display math, then inline.
Extract(pre) ==
    LET d == ExtractDisplay(pre, 1, [text |-> <<>>, blocks |-> <<>>])
    IN ExtractInline(d.text, 1, [text |-> <<>>, blocks |-> d.blocks])

\* const processedTextPre = this.sanitizeMarkdown(markdownText)  (unified);
\* let processedText = markdownText  (legacy)
PreProcess(v, markdownText) ==
    IF v = "unified" THEN SanitizeMarkdown(markdownText) ELSE markdownText

TextNode(tok) == [kind |-> "text", src |-> <<tok>>, body |-> <<>>, tool |-> FALSE]
TextNodes(s) == [k \in 1..Len(s) |-> TextNode(s[k])]
MathNode(type, tex) == [kind |-> type, src |-> tex, body |-> <<>>, tool |-> FALSE]
MathError(tex) == [kind |-> "math-error", src |-> tex, body |-> <<>>, tool |-> FALSE]
CodeNode(lang, body) == [kind |-> "code", src |-> <<lang>>, body |-> body, tool |-> FALSE]
Diagram(source, tool) == [kind |-> "mermaid", src |-> source, body |-> <<>>, tool |-> tool]

\* the class marked gives the <code> of a fenced block: language-<info string>
Language(tok) ==
    IF tok = FenceMermaid THEN "mermaid" ELSE IF tok = FenceJs THEN "js" ELSE ""

\* the position of the fence that closes the block whose content starts at
\* position j; a block that is not closed runs to the end of the text
RECURSIVE FenceEnd(_, _)
FenceEnd(s, j) ==
    IF j > Len(s) THEN Len(s) + 1
    ELSE IF s[j] = Fence THEN j
    ELSE FenceEnd(s, j + 1)

\* marked.parse(processedText): fenced blocks become <pre><code>, the rest
\* is prose
RECURSIVE MarkedFrom(_, _)
MarkedFrom(s, i) ==
    IF i > Len(s) THEN <<>>
    ELSE IF IsFence(s[i])
    THEN LET e == FenceEnd(s, i + 1)
         IN <<CodeNode(Language(s[i]), TextNodes(SubSeq(s, i + 1, e - 1)))>>
                \o MarkedFrom(s, e + 1)
    ELSE <<TextNode(s[i])>> \o MarkedFrom(s, i + 1)

MarkedParse(s) == MarkedFrom(s, 1)

\* try { return katex.renderToString(block.tex, ...) } catch (e) { ... }:
\* the nodes that replace the placeholder of `block`; `throws` holds the TeX
\* sources on which katex throws
KatexRender(v, block, throws) ==
    IF block.tex \in throws
    THEN IF v = "unified" THEN <<MathError(block.tex)>>   \* <span class="math-error">
         ELSE TextNodes(block.tex)                        \* return block.tex
    ELSE <<MathNode(block.type, block.tex)>>

\* The callback of innerHTML.replace(/%%%MATH(\d+)%%%/g, ...) on one node of
\* text:  const block = mathBlocks[parseInt(index)]; if (!block) return match;
RestoreNode(v, node, blocks, throws) ==
    IF /\ node.kind = "text"
       /\ IsPlaceholder(node.src[1])
       /\ PlaceholderIndex(node.src[1]) < Len(blocks)
    THEN KatexRender(v, blocks[PlaceholderIndex(node.src[1]) + 1], throws)
    ELSE <<node>>

RECURSIVE RestoreFlat(_, _, _, _)
RestoreFlat(v, nodes, blocks, throws) ==
    IF nodes = <<>> THEN <<>>
    ELSE RestoreNode(v, Head(nodes), blocks, throws)
             \o RestoreFlat(v, Tail(nodes), blocks, throws)

\* element.innerHTML = element.innerHTML.replace(/%%%MATH(\d+)%%%/g, ...):
\* every placeholder of the HTML, in the prose and inside the code blocks
RECURSIVE RestoreMath(_, _, _, _)
RestoreMath(v, nodes, blocks, throws) ==
    IF nodes = <<>> THEN <<>>
    ELSE LET n == Head(nodes)
         IN (IF n.kind = "code"
             THEN <<[n EXCEPT !.body = RestoreFlat(v, n.body, blocks, throws)]>>
             ELSE RestoreNode(v, n, blocks, throws))
                \o RestoreMath(v, Tail(nodes), blocks, throws)

\* codeBlock.textContent
RECURSIVE TextContent(_)
TextContent(nodes) ==
    IF nodes = <<>> THEN <<>> ELSE Head(nodes).src \o TextContent(Tail(nodes))

\* The two loops of `if (isFinal)` of the unified edition: each
\* pre code.language-mermaid is replaced by a container with a toolbar, each
\* other <pre> with a <code> is wrapped and given a toolbar.
FinalSteps(nodes) ==
    [k \in 1..Len(nodes) |->
        IF nodes[k].kind # "code" THEN nodes[k]
        ELSE IF nodes[k].src = <<"mermaid">>
        THEN Diagram(TextContent(nodes[k].body), TRUE)
        ELSE [nodes[k] EXCEPT !.tool = TRUE]]

\* The loop of the legacy edition: each code.language-mermaid is replaced by
\* a div.mermaid.
MermaidLegacy(nodes) ==
    [k \in 1..Len(nodes) |->
        IF nodes[k].kind = "code" /\ nodes[k].src = <<"mermaid">>
        THEN Diagram(TextContent(nodes[k].body), FALSE)
        ELSE nodes[k]]

\* markdownText.includes(tok)
Includes(markdownText, tok) == \E k \in 1..Len(markdownText) : markdownText[k] = tok

\* processedText and mathBlocks after the two replace calls; nothing is
\* extracted when marked is not loaded (the early return)
Extracted(v, env, markdownText) ==
    IF env = "nomarked" THEN [text |-> markdownText, blocks |-> <<>>]
    ELSE Extract(PreProcess(v, markdownText))

\* What renderRichContent(element, markdownText, isFinal) assigns to the
\* element.  env says which libraries the page has loaded: "full" (marked
\* and the math renderer), "nomath" (marked only) or "nomarked".
RenderedNodes(v, env, throws, markdownText, isFinal) ==
    IF env = "nomarked" THEN TextNodes(markdownText)    \* element.textContent = markdownText
    ELSE LET x == Extracted(v, env, markdownText)
             parsed == MarkedParse(x.text)
             restored == IF env = "full" THEN RestoreMath(v, parsed, x.blocks, throws)
                         ELSE parsed
         IN IF v = "unified"
            THEN IF isFinal THEN FinalSteps(restored) ELSE restored
            ELSE IF isFinal \/ Includes(markdownText, FenceMermaid)
                 THEN MermaidLegacy(restored) ELSE restored

\* A variant of the render that adds to what the element holds.
RenderIntoAppend(el, v, env, throws, markdownText, isFinal) ==
    el \o RenderedNodes(v, env, throws, markdownText, isFinal)

\* The content of the element after renderRichContent: the element is
\* assigned (innerHTML, textContent), so what it held is replaced.
RenderInto(el, v, env, throws, markdownText, isFinal) ==
    RenderedNodes(v, env, throws, markdownText, isFinal)

-----------------------------------------------------------------------------
(* Specifications *)

\* No element is rendered by itself in the runs of the controller.
NoTarget ==
    [env |-> "full", throws |-> {}, text |-> <<>>, html |-> <<>>, last |-> "none",
     processedText |-> <<>>, mathBlocks |-> <<>>]

\* The state after `new UnifiedOS()`: loadSettings has read the provider and
\* the keys from localStorage, and checkConnection awaits its reply (for a
\* cloud provider without a key it has set isConnected at once).
\* this.keys and localStorage as the constructor finds them, when the
\* providers of ks have a key stored by an earlier run.
PanelWith(ks) ==
    [keyval |-> [p \in Providers |-> IF p \in ks THEN KeyFor(p, "old") ELSE NoKey],
     stored |-> [p \in Providers |-> IF p \in ks THEN KeyFor(p, "old") ELSE NoKey],
     validations |-> {}]

\* The bars after init(): updateUI() disables the run button of the empty
\* command input, then checkConnection() calls updateStatusBar(false, ...)
\* and, when there is no key to check, writes its message to the model list.
DomWith(pending) ==
    [spinner |-> FALSE, runDisabled |-> FALSE, hasText |-> FALSE,
     modelList |-> IF pending THEN "none" ELSE "enterKey"]

Init ==
    /\ variant \in {"unified", "legacy"}
    /\ provider \in {"ollama", "groq", "gemini"}
    /\ keys \in { {}, CloudProviders }
    /\ isConnected = FALSE
    /\ checks = IF provider = "ollama" \/ provider \in keys THEN {provider} ELSE {}
    /\ isGenerating = FALSE
    /\ commandHistory = <<>>
    /\ canvas = <<>>
    /\ history = <<>>
    /\ sessions = <<>>
    /\ started = 0
    /\ signal = "none"
    /\ target = NoTarget
    /\ dom = DomWith(checks # {})
    /\ panel = PanelWith(keys)

(* Threads and the reload of the page (unified edition) *)

\* The `click` listener of newThreadBtn: createNewThread()
NewThreadClick ==
    /\ variant = "unified"
    /\ Len(history) < MaxThreads
    /\ \E id \in Now(history) : history' = CreateNewThread(history, provider, id)
    /\ canvas' = <<>>
    /\ signal' = "newThread"
    /\ UNCHANGED <<sessions, isGenerating, dom>>
    /\ UNCHANGED Others

\* The `click` listener of the k-th item of the history list:
\* loadThread(thread.id), which shows the first thread with that id.
LoadThreadClick(k) ==
    /\ variant = "unified"
    /\ k \in 1..Len(history)
    /\ LET id == history[k].id
           found == CHOOSE f \in 1..Len(history) :
                        /\ history[f].id = id
                        /\ \A j \in 1..(f - 1) : history[j].id # id
       IN /\ history' = LoadThread(history, id)
          /\ canvas' = ThreadBlocks(history[found].messages)
    /\ signal' = "threadLoaded"
    /\ UNCHANGED <<sessions, isGenerating, dom>>
    /\ UNCHANGED Others

\* The page is loaded again: `new UnifiedOS()` and init(), with localStorage
\* as the run before left it.  saveSettings() has written the provider and
\* the command history, the key handlers the keys; no statement writes
\* glyphos_chat_history, which loadSettings() reads into this.history.
\* The requests of the page before are gone with it.
Reload ==
    /\ variant = "unified"
    /\ UNCHANGED <<variant, provider, commandHistory, started>>
    /\ panel' = [keyval |-> panel.stored, stored |-> panel.stored,
                 validations |-> {}]
    /\ keys' = {p \in Providers : panel.stored[p] # NoKey}
    /\ isConnected' = FALSE
    /\ checks' = IF provider = "ollama" \/ provider \in keys'
                 THEN {provider} ELSE {}
    /\ isGenerating' = FALSE
    /\ canvas' = <<>>
    /\ history' = <<>>
    /\ sessions' = <<>>
    /\ signal' = "none"
    /\ target' = NoTarget
    /\ dom' = DomWith(checks' # {})

Submit(text) == ProcessCommandInput(text) \/ ProcessInput(text)

Live == 1..Len(sessions)

Next ==
    \/ \E text \in Inputs : Submit(text)
    \/ \E i \in Live, outcome \in {"ok", "status", "network"} :
           /\ sessions[i].pc = "fetch"
           /\ \E body \in ControlBodies(sessions[i].provider) :
                  FetchResolves(i, outcome, body)
    \/ \E i \in Live : \E n \in 1..Len(sessions[i].body) : ReadChunk(i, n)
    \/ \E i \in Live : ReadDone(i)
    \/ \E i \in Live : ReadFails(i)
    \/ \E i \in Live, doc \in FallbackDocs : FallbackResolves(i, doc)
    \/ \E p \in Providers, ok \in BOOLEAN : CheckResolves(p, ok)

Spec == Init /\ [][Next]_vars

\* The adapters alone: one prompt, every body of StreamBodies, every way of
\* cutting it into chunks, and no other event while the session runs.
InitStream == Init /\ keys = CloudProviders

NextStream ==
    \/ started = 0 /\ Submit(PromptHi)
    \/ \E i \in Live :
           /\ sessions[i].pc = "fetch"
           /\ \E body \in StreamBodies(sessions[i].provider) :
                  FetchResolves(i, "ok", body)
    \/ \E i \in Live : \E n \in 1..Len(sessions[i].body) : ReadChunk(i, n)
    \/ \E i \in Live : ReadDone(i)
    \/ \E i \in Live, doc \in FallbackDocs : FallbackResolves(i, doc)
    \/ \E p \in Providers : CheckResolves(p, TRUE)

StreamSpec == InitStream /\ [][NextStream]_vars

\* The controller with the failures of rendering a delta, under the
\* assumption that the transport ends every request it holds: fetch resolves
\* or rejects, the stream of the body reports done or its read rejects, and
\* the non-streaming request resolves or rejects.  (A body has finitely many
\* chunks, so nothing is assumed of the reads that yield one.)
Resolves ==
    \/ \E i \in Live, outcome \in {"ok", "status", "network"} :
           /\ sessions[i].pc = "fetch"
           /\ \E body \in ControlBodies(sessions[i].provider) :
                  FetchResolves(i, outcome, body)
    \/ \E i \in Live : ReadDone(i)
    \/ \E i \in Live : ReadFails(i)
    \/ \E i \in Live, doc \in FallbackDocs : FallbackResolves(i, doc)
    \/ \E i \in Live, doc \in FallbackDocs : FallbackRenderThrows(i, doc)

LiveNext ==
    \/ \E text \in Inputs : Submit(text)
    \/ Resolves
    \/ \E i \in Live : \E n \in 1..Len(sessions[i].body) : ReadChunk(i, n)
    \/ \E i \in Live : \E n \in 1..Len(sessions[i].body) : ReadChunkRenderThrows(i, n)
    \/ \E p \in Providers, ok \in BOOLEAN : CheckResolves(p, ok)

LiveSpec == Init /\ [][LiveNext]_vars /\ WF_vars(Resolves)

\* The control panel alone: the provider select, the key input and the /key
\* command, the connection checks and the validations, with no session.
PanelProviders == {"groq", "openai"}
NewKeys == {"new"}

InitPanel == Init /\ variant = "unified" /\ provider = "groq"

NextPanel ==
    \/ \E q \in PanelProviders : ProviderChange(q)
    \/ \E n \in NewKeys : SaveKeyClick(n)
    \/ \E p \in PanelProviders, n \in NewKeys : KeyCommand(p, n)
    \/ \E v \in panel.validations, ok \in BOOLEAN : ValidationResolves(v, ok)
    \/ \E p \in Providers, ok \in BOOLEAN : CheckResolves(p, ok)

PanelSpec == InitPanel /\ [][NextPanel]_vars

\* The controller with the history panel: prompts, /clear and /reset, the
\* New Thread button, the items of the history list and the reload of the page.
ThreadInputs == { PromptHi, <<"/", "clear">>, <<"/", "reset">> }

InitThread == Init /\ variant = "unified" /\ provider = "ollama"

NextThread ==
    \/ \E text \in ThreadInputs : ProcessCommandInput(text)
    \/ \E i \in Live, outcome \in {"ok", "status", "network"} :
           /\ sessions[i].pc = "fetch"
           /\ \E body \in ControlBodies(sessions[i].provider) :
                  FetchResolves(i, outcome, body)
    \/ \E i \in Live : \E n \in 1..Len(sessions[i].body) : ReadChunk(i, n)
    \/ \E i \in Live : ReadDone(i)
    \/ \E i \in Live : ReadFails(i)
    \/ \E p \in Providers, ok \in BOOLEAN : CheckResolves(p, ok)
    \/ NewThreadClick
    \/ \E k \in 1..MaxThreads + MaxSessions : LoadThreadClick(k)
    \/ Reload

ThreadSpec == InitThread /\ [][NextThread]_vars

\* The renderer alone: renderRichContent is called on one element, any number
\* of times in either mode, with one markdown text.  The text is made of
\* segments: the math delimiters, a letter, a bullet (or minus sign) between
\* spaces, a placeholder-shaped text; or a letter, an inline formula and the
\* fences.
MathSegments ==
    { <<DOLLAR, DOLLAR>>, <<DOLLAR>>, <<LETTER>>, <<SP, BULLET, SP>>,
      <<Placeholder(0)>> }

CodeSegments ==
    { <<LETTER>>, <<DOLLAR, LETTER, DOLLAR>>, <<FenceMermaid>>, <<FenceJs>>,
      <<Fence>> }

RECURSIVE Flatten(_)
Flatten(q) == IF q = <<>> THEN <<>> ELSE Head(q) \o Flatten(Tail(q))

RenderBuffers ==
    { Flatten(q) : q \in SeqsUpTo(MathSegments, MaxSegments) }
        \cup { Flatten(q) : q \in SeqsUpTo(CodeSegments, MaxCodeSegments) }

\* The libraries the page has loaded and the TeX sources katex throws on.
RenderEnvs ==
    { [env |-> "full", throws |-> {}], [env |-> "full", throws |-> {<<LETTER>>}],
      [env |-> "nomath", throws |-> {}], [env |-> "nomarked", throws |-> {}] }

InitRender ==
    /\ variant \in {"unified", "legacy"}
    /\ provider = "ollama" /\ keys = {} /\ isConnected = FALSE
    /\ checks = {"ollama"}
    /\ isGenerating = FALSE
    /\ commandHistory = <<>> /\ canvas = <<>> /\ history = <<>>
    /\ sessions = <<>> /\ started = 0 /\ signal = "none"
    /\ dom = DomWith(TRUE) /\ panel = PanelWith({})
    /\ \E e \in RenderEnvs, text \in RenderBuffers :
           target = [env |-> e.env, throws |-> e.throws, text |-> text,
                     html |-> <<>>, last |-> "none",
                     processedText |-> <<>>, mathBlocks |-> <<>>]

\* this.renderRichContent(element, markdownText, isFinal); processedText and
\* mathBlocks are the locals of the call as the extraction left them
Render(isFinal) ==
    /\ target' = [target EXCEPT
                     !.html = RenderInto(target.html, variant, target.env,
                                         target.throws, target.text, isFinal),
                     !.last = IF isFinal THEN "final" ELSE "intermediate",
                     !.processedText = Extracted(variant, target.env, target.text).text,
                     !.mathBlocks = Extracted(variant, target.env, target.text).blocks]
    /\ UNCHANGED <<variant, provider, keys, isConnected, isGenerating,
                   commandHistory, canvas, history, sessions, started, signal,
                   checks, dom, panel>>

NextRender == \E isFinal \in BOOLEAN : Render(isFinal)

RenderSpec == InitRender /\ [][NextRender]_vars

-----------------------------------------------------------------------------
(* What the claims speak of *)

Session(i) == sessions[i]
Done(s) == s.pc = "done"

IsPrefix(a, b) == Len(a) <= Len(b) /\ SubSeq(b, 1, Len(a)) = a

\* The running texts of a sequence of deltas: d1, d1 d2, ... (empty deltas
\* contribute nothing).
RECURSIVE Cumulate(_, _)
Cumulate(text, deltas) ==
    IF deltas = <<>> THEN <<>>
    ELSE IF Head(deltas) = <<>> THEN Cumulate(text, Tail(deltas))
    ELSE <<text \o Head(deltas)>> \o Cumulate(text \o Head(deltas), Tail(deltas))

\* The line is `data: [DONE]`.
DoneLine(line) ==
    StartsWithData(Trim(line)) /\ Trim(ReplaceData(line)) = <<DONE>>

\* The delta a line of the protocol of provider p carries: the content of a
\* well-formed record (behind the `data: ` prefix for the SSE shape), nothing
\* for any other line.
LineDelta(p, line) ==
    LET payload == IF p \in OpenAIStyle
                   THEN IF StartsWithData(Trim(line))
                        THEN Trim(ReplaceData(line)) ELSE <<>>
                   ELSE line
        json == JSONParse(payload)
    IN IF json.kind = "object" THEN json.text ELSE <<>>

DeltasOf(p, lines) == [k \in 1..Len(lines) |-> LineDelta(p, lines[k])]

\* Every line of the body is a JSON object (or empty).
WellFormed(body) ==
    \A k \in 1..Len(Split(body)) :
        Split(body)[k] = <<>> \/ JSONParse(Split(body)[k]).kind = "object"

\* Some line of the body is malformed: it is not empty and is no record of
\* the protocol of provider p.
Malformed(p, line) ==
    /\ Trim(line) # <<>>
    /\ ~DoneLine(line)
    /\ \/ p \in OpenAIStyle /\ ~StartsWithData(Trim(line))
       \/ JSONParse(IF p \in OpenAIStyle THEN Trim(ReplaceData(line)) ELSE line).kind
              # "object"
HasMalformed(p, body) ==
    \E k \in 1..Len(Split(body)) : Malformed(p, Split(body)[k])

\* No line after a [DONE] line carries content.
DoneIsTerminal(p, body) ==
    LET lines == Split(body) IN
    \A k \in 1..Len(lines) : \A j \in (k + 1)..Len(lines) :
        (p \in OpenAIStyle /\ DoneLine(lines[k])) => LineDelta(p, lines[j]) = <<>>

\* The adapter of provider p on a body that arrives as one single chunk.
OneShot(v, p, body) ==
    LET init == [buffer |-> <<>>, fullText |-> <<>>, updates |-> <<>>,
                 thrown |-> FALSE]
    IN EndStep(v, p, IF body = <<>> THEN init ELSE ChunkStep(v, p, init, body))

\* The texts of the intermediate (non-final) renders of the response block.
Intermediate(renders) ==
    LET nf == SelectSeq(renders, LAMBDA r : ~r.final)
    IN [k \in 1..Len(nf) |-> nf[k].text]

\* A [DONE] line is among the complete lines the activation has received.
DoneRead(s) ==
    LET lines == Front(Split(SubSeq(s.body, 1, s.pos)))
    IN \E k \in 1..Len(lines) : DoneLine(lines[k])

-----------------------------------------------------------------------------
(* The claims *)

\* C1: at most one generation session is in progress at a time; isGenerating
\* is true exactly while one is; a step taken while a session is in progress
\* (a submission, or the session's own end) begins no other generateResponse
\* body, and a body begins only in the step of the submission that appended
\* its user block: a rejected submission is not run later.
C1_AtMostOneSession ==
    /\ [](Cardinality(RunningSet) <= 1 /\ (isGenerating <=> RunningSet # {}))
    /\ [][ /\ isGenerating => started' = started
           /\ started' # started =>
                 /\ started' = started + 1
                 /\ Len(canvas) + 2 = Len(canvas')
                 /\ canvas'[Len(canvas) + 1].type = "user"
                 /\ canvas'[Len(canvas) + 2] = AssistantBlock(started') ]_vars

\* C1 witness: a second session is running, the first having ended, and a
\* submission made meanwhile was rejected.
C1_Witness ==
    /\ started = 2
    /\ Cardinality(RunningSet) = 1
    /\ isGenerating
    /\ signal = "busy"

\* C2: a submission made while a session is in progress is rejected with the
\* Busy signal and changes neither the session (its text, its response block,
\* the provider it captured) nor the command history nor the canvas.
C2_RejectedLeavesAll ==
    [][ (isGenerating /\ \E text \in Inputs \ {<<>>} : Submit(text)) =>
            /\ signal' = "busy"
            /\ UNCHANGED <<sessions, commandHistory, canvas, history, provider>> ]_vars

\* C3: for a well-formed line-delimited-JSON body, streamOllama passes to
\* onUpdate the same texts in the same order however the body is cut into
\* chunks: the texts it passes when the body is one single chunk.
C3_ChunkingIrrelevant ==
    \A i \in Live :
        (Session(i).provider = "ollama" /\ Done(Session(i))
            /\ WellFormed(Session(i).body))
        => Session(i).updates = OneShot(variant, "ollama", Session(i).body).updates

\* C4: once streamOpenAIStyle has read a `data: [DONE]` line, nothing that
\* follows it (in a later chunk or in the trailing buffer) adds to the text
\* or calls onUpdate.
C4_DoneStops ==
    [][ \A i \in Live :
            (i \in DOMAIN sessions' /\ Session(i).provider \in OpenAIStyle
                /\ Session(i).pc = "read" /\ DoneRead(Session(i)))
            => /\ sessions'[i].updates = Session(i).updates
               /\ sessions'[i].fullText = Session(i).fullText ]_vars

\* The content of a record left unterminated in the buffer.
FragmentDelta(p, frag) ==
    IF p \in OpenAIStyle /\ DoneLine(frag) THEN <<>> ELSE LineDelta(p, frag)

\* C5: in every streaming adapter of the unified edition, when the body ends
\* while a record is still buffered without its newline, the record is
\* parsed and its delta is added to the accumulated text.
C5_TrailingParsed ==
    [][ \A i \in Live :
            (i \in DOMAIN sessions' /\ variant = "unified"
                /\ Session(i).pc = "read" /\ sessions'[i].pc = "done"
                /\ Session(i).pos = Len(Session(i).body)
                /\ FragmentDelta(Session(i).provider, Session(i).buffer) # <<>>)
            => sessions'[i].fullText =
                   Session(i).fullText
                       \o FragmentDelta(Session(i).provider, Session(i).buffer) ]_vars

\* C6: in streamOllama and streamOpenAIStyle (unified edition) a malformed
\* line is skipped and never fatal: whatever lines the body mixes, no
\* session is aborted by a line that does not decode, and the texts passed to
\* onUpdate are exactly the running texts of the content-bearing records, in
\* order.  (Bodies in which content follows a [DONE] line are C4's.)
C6_MalformedSkipped ==
    \A i \in Live :
        /\ Session(i).err # "DecodeError"
        /\ (variant = "unified" /\ Session(i).provider # "gemini"
                /\ Done(Session(i)) /\ Session(i).pos = Len(Session(i).body)
                /\ DoneIsTerminal(Session(i).provider, Session(i).body))
           => /\ Session(i).updates =
                     Cumulate(<<>>, DeltasOf(Session(i).provider,
                                             Split(Session(i).body)))
              /\ Session(i).err = IF Session(i).updates = <<>>
                                  THEN "EmptyResponse" ELSE "none"

\* C6 witness: a session of the unified edition has ended normally on a body
\* that holds a malformed line before a content-bearing one.
C6_Witness ==
    \E i \in Live :
        /\ variant = "unified" /\ Session(i).provider \in OpenAIStyle
        /\ Done(Session(i)) /\ Session(i).err = "none"
        /\ Malformed(Session(i).provider, Split(Session(i).body)[1])
        /\ Session(i).updates = << <<"b">> >>

\* C7: a session ends Complete (the adapter returned normally) only if the
\* accumulated text is not empty; a body without content ends it Failed.
C7_CompleteOnlyNonEmpty ==
    \A i \in Live :
        (Done(Session(i)) /\ Session(i).err = "none")
        => Session(i).fullResponseText # <<>>

\* C8: when an adapter error aborted the session, the error message is in
\* the response block once generateResponse has finished.
C8_ErrorShown ==
    \A i \in Live :
        (Done(Session(i)) /\ Session(i).err # "none") => ShowsError(Session(i).el)

\* C9 as stated: every final-mode render of the response block happens after
\* isGenerating is cleared and no intermediate render follows it.
C9_FinalOnlyAtEnd ==
    \A i \in Live : \A k \in 1..Len(Session(i).renders) :
        Session(i).renders[k].final =>
            /\ ~Session(i).renders[k].gen
            /\ \A j \in (k + 1)..Len(Session(i).renders) :
                   Session(i).renders[j].final

\* C9 amended: the response block is rendered once in final mode, empty, by
\* appendBlock when it is created; apart from that, the only final-mode
\* render is the final pass, which is the last render of the block, on the
\* full text, after isGenerating is cleared; every intermediate render
\* happens while isGenerating is set.
C9_FinalPassLast ==
    \A i \in Live :
        LET r == Session(i).renders IN
        /\ Len(r) >= 1
        /\ r[1] = [final |-> TRUE, text |-> <<>>, gen |-> TRUE]
        /\ \A k \in 2..Len(r) :
               IF r[k].final
               THEN /\ k = Len(r)
                    /\ Done(Session(i))
                    /\ ~r[k].gen
                    /\ r[k].text = Session(i).fullResponseText
               ELSE r[k].gen /\ (Done(Session(i)) => k < Len(r))
        /\ Done(Session(i)) => (Len(r) >= 2 /\ r[Len(r)].final)

\* C9 witness: a session has ended after two intermediate renders.
C9_Witness ==
    \E i \in Live :
        /\ Done(Session(i))
        /\ Len(Session(i).renders) = 4
        /\ Intermediate(Session(i).renders) = << <<"a">>, <<"a", "b">> >>

\* C10: each delta triggers exactly one intermediate render, in arrival
\* order: the intermediate renders are those of the texts passed to onUpdate,
\* each a proper extension of the one before, fullResponseText is the last
\* of them, and (streamOllama, unified edition) the k-th is the concatenation
\* of the first k content deltas of the body received so far.
C10_DeltasInOrder ==
    \A i \in Live :
        LET s == Session(i)
            u == s.updates
            received == IF Done(s) THEN Split(s.body)
                        ELSE Front(Split(SubSeq(s.body, 1, s.pos)))
        IN /\ Intermediate(s.renders) = u
           /\ s.fullResponseText = IF u = <<>> THEN <<>> ELSE u[Len(u)]
           /\ \A k \in 1..Len(u) :
                  LET prev == IF k = 1 THEN <<>> ELSE u[k - 1]
                  IN IsPrefix(prev, u[k]) /\ Len(prev) < Len(u[k])
           /\ (variant = "unified" /\ s.provider = "ollama"
                   /\ s.pc \in {"read", "done"})
              => u = Cumulate(<<>>, DeltasOf("ollama", received))

\* C10 witness: streamOllama has rendered "a" and is in the middle of the
\* line that will make it render "ab".
C10_Witness ==
    \E i \in Live :
        /\ variant = "unified" /\ Session(i).provider = "ollama"
        /\ Session(i).pc = "read"
        /\ Session(i).body = <<"{", "a", "}", NL, "{", "b", "}">>
        /\ Session(i).pos = 5
        /\ Intermediate(Session(i).renders) = << <<"a">> >>

-----------------------------------------------------------------------------
(* The claims about renderRichContent *)

\* The nodes of an element's content, those inside the code blocks included.
RECURSIVE AllNodes(_)
AllNodes(nodes) ==
    IF nodes = <<>> THEN <<>>
    ELSE <<Head(nodes)>> \o Head(nodes).body \o AllNodes(Tail(nodes))

IsMath(node) == node.kind \in {"display", "inline"}
HasAffordance(nodes) ==
    \E k \in 1..Len(nodes) : nodes[k].kind = "mermaid" \/ nodes[k].tool

CountOf(s, Test(_)) == Len(SelectSeq(s, Test))

\* The placeholder-shaped texts left in the output: as text, or inside the
\* source of a math fragment.
PlaceholdersIn(nodes) ==
    CountOf(Flatten([k \in 1..Len(AllNodes(nodes)) |-> AllNodes(nodes)[k].src]),
            IsPlaceholder)

Rendered == target.last # "none"

\* C11: a render with isFinal false creates no diagram container and no code
\* toolbar, whatever the text holds.
C11_NoAffordanceOnIntermediate ==
    target.last = "intermediate" => ~HasAffordance(target.html)

\* What a final render of the unified edition adds to the content `inter` of
\* an intermediate render: a container with a toolbar in place of each
\* mermaid block, a toolbar on each other code block, nothing else.
AddsAffordances(inter, final) ==
    /\ Len(final) = Len(inter)
    /\ \A k \in 1..Len(inter) :
          IF inter[k].kind # "code" THEN final[k] = inter[k]
          ELSE IF inter[k].src = <<"mermaid">>
          THEN final[k] = Diagram(TextContent(inter[k].body), TRUE)
          ELSE final[k] = [inter[k] EXCEPT !.tool = TRUE]

DisplayThenInline == <<DOLLAR, DOLLAR, DOLLAR, DOLLAR, DOLLAR, LETTER, DOLLAR>>

\* C13: after a final render (all libraries loaded, katex not failing) of a
\* text that holds no placeholder-shaped text itself, no placeholder is left
\* in the output; and the text of a display region followed by an inline
\* region renders to the two math fragments, in that order.
C13_NoPlaceholderLeft ==
    (/\ target.last = "final" /\ target.env = "full" /\ target.throws = {}
     /\ CountOf(target.text, IsPlaceholder) = 0)
    => /\ PlaceholdersIn(target.html) = 0
       /\ target.text = DisplayThenInline
              => target.html = <<MathNode("display", <<>>),
                                 MathNode("inline", <<LETTER>>)>>

\* The number of regions between paired "$$" markers, the markers taken from
\* left to right.
RECURSIVE DisplayMarkers(_, _)
DisplayMarkers(s, i) ==
    IF i + 1 > Len(s) THEN 0
    ELSE IF s[i] = DOLLAR /\ s[i + 1] = DOLLAR THEN 1 + DisplayMarkers(s, i + 2)
    ELSE DisplayMarkers(s, i + 1)

DisplayRegions(s) == DisplayMarkers(s, 1) \div 2

Delimiter(type) == IF type = "display" THEN <<DOLLAR, DOLLAR>> ELSE <<DOLLAR>>

\* The text with every placeholder of index i replaced by block i between
\* its delimiters.
RECURSIVE Unextract(_, _)
Unextract(s, blocks) ==
    IF s = <<>> THEN <<>>
    ELSE (IF IsPlaceholder(Head(s)) /\ PlaceholderIndex(Head(s)) < Len(blocks)
          THEN LET b == blocks[PlaceholderIndex(Head(s)) + 1]
               IN Delimiter(b.type) \o Unextract(b.tex, blocks) \o Delimiter(b.type)
          ELSE <<Head(s)>>)
         \o Unextract(Tail(s), blocks)

\* C14: each region between paired "$$" markers is recorded as one block of
\* type display, none of them is taken by the inline pass, and block i is
\* the one the placeholder of index i stands for: putting the blocks back
\* for their placeholders gives the text the extraction was run on.
C14_DisplayFirst ==
    (/\ Rendered /\ target.env # "nomarked"
     /\ CountOf(target.text, IsPlaceholder) = 0)
    => /\ CountOf(target.mathBlocks, LAMBDA b : b.type = "display")
              = DisplayRegions(target.text)
       /\ Unextract(target.processedText, target.mathBlocks)
              = PreProcess(variant, target.text)

\* C14 witness: a text with a display region and an inline region has been
\* rendered.
C14_Witness ==
    /\ Rendered
    /\ target.text = DisplayThenInline
    /\ target.mathBlocks = <<[type |-> "display", tex |-> <<>>],
                             [type |-> "inline", tex |-> <<LETTER>>]>>
    /\ target.processedText = <<Placeholder(0), Placeholder(1)>>

\* C15: the restore step replaces only placeholders the extraction of the
\* same call inserted: there are no more math fragments than extracted
\* blocks, and every placeholder-shaped text of the input is still in the
\* output.
C15_NoCollision ==
    (Rendered /\ target.env = "full" /\ target.throws = {})
    => /\ CountOf(AllNodes(target.html), IsMath) <= Len(target.mathBlocks)
       /\ PlaceholdersIn(target.html) >= CountOf(target.text, IsPlaceholder)

\* C16: (unified) the blocks recorded are those of the text as the session
\* holds it: what sanitizeMarkdown does before the extraction neither
\* changes the source of a region nor keeps a region from being extracted.
C16_SourceUnaltered ==
    (Rendered /\ variant = "unified" /\ target.env # "nomarked")
    => target.mathBlocks = Extract(target.text).blocks

\* The content with each math fragment whose source is in `throws` replaced
\* by the flagged error span of that source.
RECURSIVE Flagged(_, _)
Flagged(nodes, throws) ==
    IF nodes = <<>> THEN <<>>
    ELSE LET n == Head(nodes)
         IN <<IF IsMath(n) /\ n.src \in throws THEN MathError(n.src)
              ELSE [n EXCEPT !.body = Flagged(n.body, throws)]>>
                \o Flagged(Tail(nodes), throws)

\* C17: when katex throws for a block, the block is replaced by the flagged
\* error span holding its source, and everything else is rendered as it is
\* when katex does not throw.
C17_MathErrorContained ==
    (Rendered /\ target.env = "full")
    => target.html =
           Flagged(RenderedNodes(variant, "full", {}, target.text,
                                 target.last = "final"),
                   target.throws)

-----------------------------------------------------------------------------
(* The end of a session *)

\* C18: every started session returns to Idle: once generateResponse has set
\* isGenerating, and the transport resolves or rejects every request it holds,
\* isGenerating is set back to false, whatever the path (success, status,
\* network error, empty response, missing key, exception while rendering).
\* A submission of a prompt made when isGenerating is false, and not refused
\* for want of a connection, starts a session.
C18_ReturnsToIdle ==
    /\ isGenerating ~> ~isGenerating
    /\ [][(~isGenerating /\ Refusal("none") = "none" /\ Submit(PromptHi))
              => started' = started + 1]_vars

\* A second session was accepted after the first one, and it failed and left
\* the controller idle.
C18_Witness ==
    /\ variant = "unified"
    /\ started >= 2
    /\ ~isGenerating
    /\ \E i \in Live : Done(Session(i)) /\ Session(i).err # "none"

\* C19: when a session ends, Complete or Failed, it is handed to the history
\* collaborator: after every finished generateResponse call of the unified
\* edition, saveThreadToHistory has been called for that session.
C19_ArchivedAtEnd ==
    variant = "unified" =>
        \A i \in Live : Done(Session(i)) => Session(i).saved

\* C20: an input `@<provider> <message>` with a supported provider name
\* switches the provider for that one message: submitted when no session runs,
\* it starts a session with that provider and <message> as the prompt, and
\* this.provider is left as it was.
C20_OverrideStartsSession ==
    [][\A text \in Inputs :
          (HasOverride(text) /\ ~isGenerating /\ Submit(text))
              => /\ started' = started + 1
                 /\ \E i \in 1..Len(sessions') :
                        /\ sessions'[i].id = started'
                        /\ sessions'[i].provider = OverrideOf(text)
                        /\ sessions'[i].prompt = MessageOf(text)
                 /\ provider' = provider]_vars

-----------------------------------------------------------------------------
(* The single-shot adapter *)

\* C21: the single-shot adapter (the legacy streamGemini) emits one terminal
\* delta: nothing is passed to onUpdate while the streaming body is read or
\* the non-streaming request is awaited, and a session that ends without an
\* error has passed exactly one text to onUpdate, which is the response text.
C21_OneTerminalDelta ==
    \A i \in Live :
        LET s == Session(i) IN
        (variant = "legacy" /\ s.provider = "gemini") =>
            /\ Running(s) => s.updates = <<>>
            /\ (Done(s) /\ s.err = "none") =>
                   /\ Len(s.updates) = 1
                   /\ s.fullResponseText = s.updates[1]

-----------------------------------------------------------------------------
(* The command history *)

\* The most recently executed distinct inputs, newest first, after `text` was
\* executed with the list ch before it.
MostRecent(ch, text) ==
    LET others == SelectSeq(ch, LAMBDA c : c # text)
        all == <<text>> \o others
    IN SubSeq(all, 1, IF Len(all) > MaxCommandHistory THEN MaxCommandHistory
                      ELSE Len(all))

NoDuplicates(ch) == \A j, k \in 1..Len(ch) : ch[j] = ch[k] => j = k

\* C23: commandHistory holds the last 5 executed commands: it has no
\* duplicates and at most 5 entries, an accepted submission leaves in it the
\* most recently executed distinct inputs with the newest first, and a
\* rejected one (empty input, session in progress) does not change it.
C23_LastFiveCommands ==
    [][\A text \in Inputs :
           ProcessCommandInput(text) =>
               /\ NoDuplicates(commandHistory')
               /\ Len(commandHistory') <= MaxCommandHistory
               /\ commandHistory' = IF text = <<>> \/ isGenerating THEN commandHistory
                                    ELSE MostRecent(commandHistory, text)]_vars

-----------------------------------------------------------------------------
(* The canvas and the threads *)

\* C25: when a session of the unified edition completes successfully, its
\* user block and its response block are attached to the canvas, one after
\* the other, and the response block shows the final-mode render of the
\* whole response text.
C25_BlocksStayAttached ==
    [][\A i \in Live :
           (/\ variant = "unified"
            /\ Running(sessions[i])
            /\ i \in 1..Len(sessions')
            /\ sessions'[i].id = sessions[i].id
            /\ Done(sessions'[i]) /\ sessions'[i].err = "none")
           => LET s == sessions'[i] IN
              /\ s.el = RenderRichContent(<<>>, s.fullResponseText, TRUE)
              /\ \E k \in 2..Len(canvas') :
                     /\ canvas'[k] = AssistantBlock(s.id)
                     /\ canvas'[k - 1] = UserBlock(s.prompt)]_vars

-----------------------------------------------------------------------------
(* Chunking of the SSE body *)

\* C29: for every SSE body and every way of cutting it into chunks,
\* streamOpenAIStyle (unified edition) passes to onUpdate the texts it passes
\* when the body arrives as one chunk, and ends the same way (success, or the
\* empty-response failure).
C29_SseChunkingIrrelevant ==
    \A i \in Live :
        LET s == Session(i)
            one == OneShot(variant, s.provider, s.body)
        IN (variant = "unified" /\ s.provider \in OpenAIStyle /\ Done(s)
                /\ s.err \in {"none", "EmptyResponse"})
           => /\ s.updates = one.updates
              /\ (s.err = "EmptyResponse") = ThrowsEmpty(variant, one.fullText)

-----------------------------------------------------------------------------
(* The status bar *)

\* C30: while a session of the unified edition is in progress the run button
\* is disabled and the status spinner is visible, whatever else happens.
C30_BusyShown ==
    (variant = "unified" /\ isGenerating) => (dom.runDisabled /\ dom.spinner)

C27_LateReplyIgnored ==
    [][\A p \in Providers, ok \in BOOLEAN :
           (p # provider /\ checks = {p} /\ CheckResolves(p, ok))
               => /\ isConnected' = isConnected
                  /\ dom'.modelList = dom.modelList]_vars

\* C28: every key in this.keys and in localStorage lies under the provider it
\* was entered for.
C28_KeyUnderItsProvider ==
    \A p \in Providers :
        /\ panel.keyval[p] # NoKey => panel.keyval[p][1] = p
        /\ panel.stored[p] # NoKey => panel.stored[p][1] = p


\* C24: the reload of the page restores this.history, with the same threads,
\* messages and statuses.
C24_ThreadsRestored == [][Reload => history' = history]_vars

\* C26: at most one thread of the history is active, and the messages of
\* every thread are an even number, alternately of the user and of the
\* assistant.
C26_ThreadsWellFormed ==
    variant = "unified" =>
        /\ Cardinality({k \in 1..Len(history) : history[k].status = "active"}) <= 1
        /\ \A k \in 1..Len(history) :
               /\ Len(history[k].messages) % 2 = 0
               /\ \A j \in 1..Len(history[k].messages) :
                      history[k].messages[j].type =
                          IF j % 2 = 1 THEN "user" ELSE "assistant"

=============================================================================
